---- MODULE Spec2Model ----
(***************************************************************************)
(* State-machine model of the two LLM agents of the repository:            *)
(*   AgentFileParser       (src/agentClassDiagramGenerator.py)             *)
(*   AgentRecommendations  (src/agentRecommendations.py)                   *)
(*                                                                         *)
(* One agent instance is modelled at a time (variable agent says which     *)
(* class was constructed).  The completion service, the identifier         *)
(* generator and the clock are the environment: the service answers every  *)
(* call with a transport error or with a text drawn from a catalogue.      *)
(*                                                                         *)
(* Conventions                                                             *)
(*   - Python None is the empty sequence <<>>; a value v that may be None  *)
(*     is carried as <<v>>.                                                *)
(*   - A Python dict is a function with a domain of strings; a list is a   *)
(*     sequence.                                                           *)
(*   - Text is a TLA+ string.  The backquote cannot be written in a TLA+   *)
(*     string, so the apostrophe ' stands for it in the fence markers.     *)
(*   - An exception is the name of its class; each handler is modelled by  *)
(*     the set of classes it catches.                                      *)
(***************************************************************************)
EXTENDS Integers, Sequences, FiniteSets, TLC

\* ------------------------------------------------------------------ bounds

\* Largest explicit `retries` a caller passes (None selects DefaultRetries).
MaxRetries == 2
\* Largest `maxIterations` a caller passes.
MaxIter == 1
\* Completion calls the service answers before it goes down for good
\* (every later call raises a transport error).
MaxAnswers == 2
\* Public generate calls made on the one agent instance.
MaxGenerate == 1
\* Public generate calls made on the one agent instance by a caller that
\* calls it again (specification SpecSuccessive).
MaxSuccessive == 2

\* ------------------------------------------------------- program constants

DefaultRetries == 5
TailLen == 20

None == <<>>
Some(v) == <<v>>
IsNone(o) == o = <<>>
Val(o) == o[1]

\* ------------------------------------------------------------ text helpers

FenceOpen == "'''json\n"
FenceClose == "\n'''"
FenceBare == "'''"

StartsAt(s, i, pat) ==
    /\ i >= 1
    /\ i + Len(pat) - 1 <= Len(s)
    /\ SubSeq(s, i, i + Len(pat) - 1) = pat

\* re.search("```json\n(.*?)\n```", text, re.DOTALL): the leftmost opening
\* marker that is followed by a closing marker, and the nearest such closing
\* marker; the result is group(1), or None when there is no match.
FenceSearch(s) ==
    LET opens == {i \in 1..Len(s) : StartsAt(s, i, FenceOpen)}
        closesAfter(i) == {j \in (i + Len(FenceOpen))..Len(s) : StartsAt(s, j, FenceClose)}
        starts == {i \in opens : closesAfter(i) # {}}
    IN  IF starts = {} THEN None
        ELSE LET i == CHOOSE a \in starts : \A b \in starts : a <= b
                 j == CHOOSE a \in closesAfter(i) : \A b \in closesAfter(i) : a <= b
             IN  Some(SubSeq(s, i + Len(FenceOpen), j - 1))

\* re.sub(r"```json\n|```", "", text): scanning left to right, every
\* occurrence of the opening marker, else of a bare fence, is removed.
RECURSIVE StripFences(_)
StripFences(s) ==
    LET fences == {i \in 1..Len(s) : StartsAt(s, i, FenceBare)}
    IN  IF fences = {} THEN s
        ELSE LET i == CHOOSE a \in fences : \A b \in fences : a <= b
                 n == IF StartsAt(s, i, FenceOpen) THEN Len(FenceOpen) ELSE Len(FenceBare)
             IN  SubSeq(s, 1, i - 1) \o StripFences(SubSeq(s, i + n, Len(s)))

\* response[-20:]
Last20(s) == IF Len(s) <= TailLen THEN s ELSE SubSeq(s, Len(s) - TailLen + 1, Len(s))

IsSpace(c) == c \in {" ", "\n", "\t", "\r"}

RECURSIVE TrimLeft(_)
TrimLeft(s) == IF Len(s) > 0 /\ IsSpace(SubSeq(s, 1, 1)) THEN TrimLeft(Tail(s)) ELSE s

RECURSIVE TrimRight(_)
TrimRight(s) ==
    IF Len(s) > 0 /\ IsSpace(SubSeq(s, Len(s), Len(s)))
    THEN TrimRight(SubSeq(s, 1, Len(s) - 1)) ELSE s

Trim(s) == TrimRight(TrimLeft(s))

IsSubstr(pat, s) == \E i \in 1..(Len(s) + 1) : StartsAt(s, i, pat)

\* ------------------------------------------------------------ json.loads
\* The JSON documents the service's texts can contain, with the value
\* json.loads gives each.  A value is tagged with its Python type.

JObject(d) == [kind |-> "dict", obj |-> d]
JArray(a) == [kind |-> "list", arr |-> a]
JString(t) == [kind |-> "str", str |-> t]
JNumber(n) == [kind |-> "int", num |-> n]
JNull == [kind |-> "NoneType"]

JsonEmptyNodes == "{\"node\": []}"
JsonGraph == "{\"node\": [{\"id\": \"a\", \"filepath\": \"m.py\"}, {\"id\": \"b\"}, {\"id\": \"a\"}], \"connection\": [{\"source\": \"a\", \"target\": \"b\"}], \"promptTokens\": 99}"
JsonNoNode == "{\"connection\": []}"
JsonExample == "[{\"name\": \"Auth\", \"recommendation\": true, \"recommendationSummary\": \"fix\"}, {\"name\": \"DB\", \"recommendation\": false, \"recommendationSummary\": \"none\"}]"
JsonBothTrue == "[{\"id\": \"x9\", \"name\": \"DB\", \"recommendation\": true, \"recommendationSummary\": \"fix\", \"recommendationDate\": \"d0\"}, {\"name\": \"Auth\", \"recommendation\": true, \"recommendationSummary\": \"fix\"}]"
JsonShort == "[{\"name\": \"Auth\", \"recommendation\": true, \"recommendationSummary\": \"fix\"}]"
JsonDated == "[{\"name\": \"Auth\", \"recommendation\": true, \"recommendationSummary\": \"fix\"}, {\"name\": \"DB\", \"recommendation\": false, \"recommendationSummary\": \"none\", \"recommendationDate\": \"d0\"}]"
JsonLong == "[{\"name\": \"Auth\", \"recommendation\": true, \"recommendationSummary\": \"fix\"}, {\"name\": \"DB\", \"recommendation\": true, \"recommendationSummary\": \"fix\"}, {\"name\": \"UI\", \"recommendation\": true, \"recommendationSummary\": \"fix\"}]"
JsonNoSummary == "[{\"name\": \"Auth\", \"recommendation\": true}]"
JsonNoFlag == "[{\"name\": \"Auth\", \"recommendationSummary\": \"fix\"}]"
JsonEmptyObject == "{}"
JsonEmptyList == "[]"
JsonEmptyString == "\"\""
JsonNull == "null"
JsonFive == "5"

EntryAuth == [name |-> "Auth", recommendation |-> TRUE, recommendationSummary |-> "fix"]
EntryDB == [name |-> "DB", recommendation |-> FALSE, recommendationSummary |-> "none"]

JsonDocs ==
    << [text |-> JsonEmptyNodes, value |-> JObject([node |-> <<>>])],
       [text |-> JsonGraph,
        value |-> JObject([node |-> << [id |-> "a", filepath |-> "m.py"],
                                       [id |-> "b"], [id |-> "a"] >>,
                           connection |-> << [source |-> "a", target |-> "b"] >>,
                           promptTokens |-> 99])],
       [text |-> JsonNoNode, value |-> JObject([connection |-> <<>>])],
       [text |-> JsonExample, value |-> JArray(<<EntryAuth, EntryDB>>)],
       [text |-> JsonBothTrue,
        value |-> JArray(<< [id |-> "x9", name |-> "DB", recommendation |-> TRUE,
                             recommendationSummary |-> "fix", recommendationDate |-> "d0"],
                            EntryAuth >>)],
       [text |-> JsonShort, value |-> JArray(<<EntryAuth>>)],
       [text |-> JsonDated,
        value |-> JArray(<< EntryAuth,
                            [name |-> "DB", recommendation |-> FALSE,
                             recommendationSummary |-> "none", recommendationDate |-> "d0"] >>)],
       [text |-> JsonLong,
        value |-> JArray(<< EntryAuth,
                            [name |-> "DB", recommendation |-> TRUE, recommendationSummary |-> "fix"],
                            [name |-> "UI", recommendation |-> TRUE, recommendationSummary |-> "fix"] >>)],
       [text |-> JsonNoSummary, value |-> JArray(<< [name |-> "Auth", recommendation |-> TRUE] >>)],
       [text |-> JsonNoFlag, value |-> JArray(<< [name |-> "Auth", recommendationSummary |-> "fix"] >>)],
       [text |-> JsonEmptyObject, value |-> JObject(<<>>)],
       [text |-> JsonEmptyList, value |-> JArray(<<>>)],
       [text |-> JsonEmptyString, value |-> JString("")],
       [text |-> JsonNull, value |-> JNull],
       [text |-> JsonFive, value |-> JNumber(5)] >>

\* json.loads(text): surrounding whitespace is ignored; a text that is no
\* JSON document raises JSONDecodeError (None here).
JsonLoads(s) ==
    LET t == Trim(s)
        hits == {k \in 1..Len(JsonDocs) : JsonDocs[k].text = t}
    IN  IF hits = {} THEN None ELSE Some(JsonDocs[CHOOSE k \in hits : TRUE].value)

\* --------------------------------------------------------------- exceptions

Ok(v) == [exc |-> None, val |-> Some(v)]
ReturnNone == [exc |-> None, val |-> None]
Raise(e) == [exc |-> Some(e), val |-> None]
Raised(o) == o.exc # None

\* ------------------------------------------------------------------ inputs

\* A value that is no list: the dict {0: 'x'}.  Lists are indexed from 1 here,
\* so isinstance(v, list) is decided by the key 0.
NotAList == (0 :> "x")
IsList(v) == 0 \notin DOMAIN v

FileStructures ==
    << [path |-> "a.py", code |-> "class A"], [code |-> "class B"] >>

UmlStructures ==
    << [node |-> << [id |-> "n1", name |-> "Auth"], [id |-> "n2", name |-> "DB"] >>,
        connection |-> << [connectionId |-> "c1", source |-> "n1", target |-> "n2"] >>,
        codingLanguage |-> "python"],
       [node |-> NotAList, connection |-> NotAList, codingLanguage |-> "python"],
       <<>> >>

ScanResults ==
    << [result |-> << [id |-> "n1", name |-> "Auth"], [id |-> "n2", name |-> "DB"] >>,
        analysisType |-> "vulnerability"],
       [result |-> << [id |-> "n1", name |-> "Auth"] >>, analysisType |-> "security"],
       [result |-> NotAList, analysisType |-> "vulnerability"],
       <<>> >>

RetriesInputs == {None} \cup {Some(n) : n \in 0..MaxRetries}
MaxIterationsInputs == {None} \cup {Some(n) : n \in (0 - 1)..MaxIter}

\* --------------------------------------------------- the completion service
\* What one completion call gives: a transport error, or a response text with
\* a finish reason.  Token counts are taken to be determined by the request
\* and the response: one prompt token per turn sent, one completion token
\* per character returned.

StopReasons == {"stop", "length"}

UMLResponses ==
    { "'''json\n{\"node\": []",
      "}\n'''",
      "Here is the diagram:\n'''json\n" \o JsonGraph \o "\n'''",
      "I cannot parse this file.",
      "'''json\n{oops\n'''",
      "'''json\n" \o JsonNoNode \o "\n'''" }

RecResponses ==
    { JsonExample,
      "'''json\n" \o JsonBothTrue \o "\n'''",
      JsonShort, JsonDated, JsonLong, JsonNoSummary, JsonNoFlag,
      JsonEmptyObject, JsonEmptyList, JsonEmptyString, JsonNull, JsonFive,
      "Sorry, no." }

TransportError == [err |-> TRUE, response |-> "", stopReason |-> ""]
Answer(text, stop) == [err |-> FALSE, response |-> text, stopReason |-> stop]

PromptTokens(msgs) == Len(msgs)
CompletionTokens(text) == Len(text)

\* str(uuid4()): the n-th identifier generated; never a value generated
\* before and never an id of the service's texts.
Uuid4(n) == "uuid-" \o ToString(n)

\* str(datetime.now()) at the n-th reading of the clock.
Now(n) == "t" \o ToString(n)

\* ------------------------------------------------------------------- state

VARIABLES
    agent,                  \* "uml" (AgentFileParser) or "rec" (AgentRecommendations)
    pc,                     \* "idle", "for", "while", "extract"
    messages,               \* self.__messages
    fileStructure,          \* self.__fileStructure
    maxIterations,          \* self.__maxIterations
    umlStructure,           \* self.__umlStructure
    scanResult,             \* self.__scanResult
    retriesArg,             \* the retries argument as the caller passed it
    retries,                \* local retries of the generate call
    attempt,                \* attempts started by the for loop of the generate call
    diagramIteration,       \* local of __extractUMLContent
    finalUMLBlock,          \* local of __extractUMLContent
    totalPromptTokens,      \* local of __extractUMLContent
    totalCompletionTokens,  \* local of __extractUMLContent
    returned,               \* value the last generate call returned
    escaped,                \* exception that left the last generate call
    uuidCount,              \* identifiers generated so far
    clock,                  \* clock readings so far
    answered,               \* completion calls the service has answered
    generateCalls,          \* generate calls made so far
    calls,                  \* history: completion calls of the generate call
    attemptCalls,           \* history: completion calls of the attempt
    chunks,                 \* history: response texts of the attempt, in order
    answersLog,             \* history: service outcome of every call of the generate call
    attemptLog,             \* history: "ok" or the failure of each finished attempt
    modelOutput,            \* history: the value parsed from the service's text
    attemptResult           \* history: what the attempt's inner call returned

vars ==
    << agent, pc, messages, fileStructure, maxIterations, umlStructure, scanResult,
       retriesArg, retries, attempt, diagramIteration, finalUMLBlock, totalPromptTokens,
       totalCompletionTokens, returned, escaped, uuidCount, clock, answered,
       generateCalls, calls, attemptCalls, chunks, answersLog, attemptLog, modelOutput,
       attemptResult >>

inputVars == << fileStructure, maxIterations, umlStructure, scanResult, retriesArg, retries >>
loopVars == << diagramIteration, finalUMLBlock, totalPromptTokens, totalCompletionTokens >>

\* Variant of createMessage: the role given is ignored.
createMessageAssistant(role, message) == [role |-> "assistant", content |-> message]

\* __createMessage(role, message)
createMessage(role, message) == [role |-> role, content |-> message]

UMLSystemPrompt == "You are the best File Parser agent with UML expertise."
RecSystemPrompt == "You are tasked with generating vulnerability assessment recommendations."

\* The state after AgentFileParser() or AgentRecommendations() is constructed.
Init ==
    /\ agent \in {"uml", "rec"}
    /\ pc = "idle"
    /\ messages = << createMessage("system",
                        IF agent = "uml" THEN UMLSystemPrompt ELSE RecSystemPrompt) >>
    /\ fileStructure = None
    /\ maxIterations = None
    /\ umlStructure = None
    /\ scanResult = None
    /\ retriesArg = None
    /\ retries = 0
    /\ attempt = 0
    /\ diagramIteration = 0
    /\ finalUMLBlock = None
    /\ totalPromptTokens = 0
    /\ totalCompletionTokens = 0
    /\ returned = None
    /\ escaped = None
    /\ uuidCount = 0
    /\ clock = IF agent = "rec" THEN 1 ELSE 0
    /\ answered = 0
    /\ generateCalls = 0
    /\ calls = 0
    /\ attemptCalls = 0
    /\ chunks = <<>>
    /\ answersLog = <<>>
    /\ attemptLog = <<>>
    /\ modelOutput = None
    /\ attemptResult = None

\* What the service may give the next call: anything while it is up, only a
\* transport error once it has answered MaxAnswers calls.
ServiceOutcomes(texts, stops) ==
    {TransportError} \cup
    (IF answered < MaxAnswers THEN {Answer(t, s) : t \in texts, s \in stops} ELSE {})

\* ------------------------------------------------- AgentFileParser (uml)

PyRepr(t) == "'" \o t \o "'"

\* str(codeRepo) for codeRepo = [fileStructure]
CodeRepoStr(fs) ==
    "[{" \o (IF "path" \in DOMAIN fs THEN "'path': " \o PyRepr(fs.path) \o ", " ELSE "")
         \o "'code': " \o PyRepr(fs.code) \o "}]"

UMLPrependMsg(fs) ==
    "FILE STRUCTURE\n" \o CodeRepoStr(fs)
        \o "\nRemember: You are the best UML generator. Follow all instructions carefully."

ContinueMsg(response) ==
    "Continue from where you left off. Here are the last 20 characters of the last response: "
        \o Last20(response)

\* retries = 5 if retries is None else retries
EffectiveRetries(r) == IF r = None THEN DefaultRetries ELSE Val(r)

\* Variant of MoreAttempts: an off-by-one in the bound of the for loop.
MoreAttemptsInclusive(done, limit) == done <= limit

\* for attempt in range(retries)
MoreAttempts(done, limit) == done < limit

\* Variant of WhileCondition: the bound is compared strictly.
WhileConditionStrict(iteration, limit) == iteration < Val(limit)

\* while not isFinished and diagramIteration <= self.__maxIterations
\* (isFinished is never set; comparing with None raises TypeError)
WhileCondition(iteration, limit) == iteration <= Val(limit)

\* Variant of NextIteration: the counter is set to 1 instead of incremented.
NextIterationStuck(iteration) == 1

\* diagramIteration += 1
NextIteration(iteration) == iteration + 1

\* Variant of Accumulate: only the first response is kept.
AccumulateFirstOnly(iteration, block, response) ==
    IF iteration = 1 THEN Some(response) ELSE block

\* Variant of Accumulate: every response replaces the buffer.
AccumulateReplace(iteration, block, response) == Some(response)

\* finalUMLBlock = response if diagramIteration == 1 else finalUMLBlock + response
Accumulate(iteration, block, response) ==
    IF iteration = 1 THEN Some(response) ELSE Some(Val(block) \o response)

\* Variant of LoopBreaks: only the finish reason "stop" breaks the loop.
LoopBreaksOnStop(iteration, limit, stopReason) == stopReason = "stop"

\* if stopReason == "stop": break / elif diagramIteration > maxIterations: break
LoopBreaks(iteration, limit, stopReason) ==
    stopReason = "stop" \/ iteration > Val(limit)

\* Variant of StampFilepath: a filepath the node already has is kept.
StampFilepathKeep(nodeBlock, fs) ==
    nodeBlock @@ ("filepath" :> (IF "path" \in DOMAIN fs THEN fs.path ELSE ""))

\* nodeBlock["filepath"] = self.__fileStructure.get("path", "")
StampFilepath(nodeBlock, fs) ==
    ("filepath" :> (IF "path" \in DOMAIN fs THEN fs.path ELSE "")) @@ nodeBlock

\* Variant of GenerateCatches: the handler of the for loop names ValueError only.
GenerateCatchesValueError(e) == e \in {"ValueError", "JSONDecodeError"}

\* The handlers: the classes each except clause catches.
ExtractCatches(e) == e \in {"JSONDecodeError", "AttributeError", "KeyError", "ValueError"}
GenerateCatches(e) == TRUE

\* The try block of __extractUMLContent after the loop.
ExtractBody(block, fs, promptTotal, completionTotal) ==
    IF block = None THEN Raise("TypeError")
    ELSE LET jsonMatch == FenceSearch(Val(block)) IN
         IF jsonMatch = None THEN Raise("ValueError")
         ELSE LET loaded == JsonLoads(Val(jsonMatch)) IN
              IF loaded = None THEN Raise("JSONDecodeError")
              ELSE IF Val(loaded).kind # "dict" THEN Raise("AttributeError")
              ELSE LET trimmedResponse == Val(loaded).obj
                       nodes == IF "node" \in DOMAIN trimmedResponse
                                THEN trimmedResponse.node ELSE <<>>
                       stamped == [i \in 1..Len(nodes) |-> StampFilepath(nodes[i], fs)]
                       withNodes == IF "node" \in DOMAIN trimmedResponse
                                    THEN [trimmedResponse EXCEPT !.node = stamped]
                                    ELSE trimmedResponse
                   IN  Ok(("promptTokens" :> promptTotal)
                          @@ ("completionTokens" :> completionTotal) @@ withNodes)

\* Variant of ExtractAfterLoop: a promptTokens value the parsed object has is
\* kept instead of the total.
ExtractAfterLoopKeepWritten(block, fs, promptTotal, completionTotal) ==
    LET body == ExtractBody(block, fs, promptTotal, completionTotal)
        written == Val(JsonLoads(Val(FenceSearch(Val(block))))).obj
    IN  IF Raised(body)
        THEN IF ExtractCatches(Val(body.exc)) THEN ReturnNone ELSE body
        ELSE IF "promptTokens" \in DOMAIN written
        THEN Ok([Val(body.val) EXCEPT !.promptTokens = written.promptTokens])
        ELSE body

\* __extractUMLContent from line 150 on: the try block under its handler.
ExtractAfterLoop(block, fs, promptTotal, completionTotal) ==
    LET body == ExtractBody(block, fs, promptTotal, completionTotal)
    IN  IF Raised(body) /\ ExtractCatches(Val(body.exc)) THEN ReturnNone ELSE body

\* Variant of uuidLoop: an id seen before is given the identifier it was
\* mapped to, instead of a new one.
RECURSIVE uuidLoopReuse(_, _, _, _)
uuidLoopReuse(nodes, i, mapper, count) ==
    IF i > Len(nodes) THEN [exc |-> None, nodes |-> nodes, count |-> count]
    ELSE IF "id" \notin DOMAIN nodes[i]
         THEN [exc |-> Some("KeyError"), nodes |-> nodes, count |-> count + 1]
    ELSE LET old == nodes[i].id
             mapped == IF old \in DOMAIN mapper THEN mapper
                       ELSE (old :> Uuid4(count + 1)) @@ mapper
         IN  uuidLoopReuse([nodes EXCEPT ![i].id = mapped[old]], i + 1, mapped, count + 1)

\* The loop of __uuidMapper from node i on; count identifiers exist already.
RECURSIVE uuidLoop(_, _, _, _)
uuidLoop(nodes, i, mapper, count) ==
    IF i > Len(nodes) THEN [exc |-> None, nodes |-> nodes, count |-> count]
    ELSE IF "id" \notin DOMAIN nodes[i]
         THEN [exc |-> Some("KeyError"), nodes |-> nodes, count |-> count + 1]
    ELSE LET old == nodes[i].id
             mapped == (old :> Uuid4(count + 1)) @@ mapper
         IN  uuidLoop([nodes EXCEPT ![i].id = mapped[old]], i + 1, mapped, count + 1)

\* Variant of uuidMapper: the source and target of every connection are
\* rewritten through the mapping from old ids to new ones.
uuidMapperRewrite(result, count) ==
    IF "node" \notin DOMAIN result
    THEN [exc |-> Some("KeyError"), val |-> None, count |-> count]
    ELSE LET done == uuidLoop(result.node, 1, <<>>, count)
             NewId(old) ==
                 LET js == {j \in 1..Len(result.node) : result.node[j].id = old}
                 IN  IF js = {} THEN old
                     ELSE done.nodes[CHOOSE j \in js : \A k \in js : k <= j].id
             Rewritten(c) == [c EXCEPT !.source = NewId(c.source), !.target = NewId(c.target)]
             withNodes == [result EXCEPT !.node = done.nodes]
         IN  IF done.exc # None THEN [exc |-> done.exc, val |-> None, count |-> done.count]
             ELSE IF "connection" \notin DOMAIN result
             THEN [exc |-> None, val |-> Some(withNodes), count |-> done.count]
             ELSE [exc |-> None,
                   val |-> Some([withNodes EXCEPT !.connection =
                               [i \in 1..Len(result.connection) |->
                                   Rewritten(result.connection[i])]]),
                   count |-> done.count]

\* Variant of uuidMapper: a result without a node key is returned as it is.
uuidMapperLenient(result, count) ==
    IF "node" \notin DOMAIN result
    THEN [exc |-> None, val |-> Some(result), count |-> count]
    ELSE LET done == uuidLoop(result.node, 1, <<>>, count)
         IN  IF done.exc # None THEN [exc |-> done.exc, val |-> None, count |-> done.count]
             ELSE [exc |-> None, val |-> Some([result EXCEPT !.node = done.nodes]),
                   count |-> done.count]

\* __uuidMapper(result)
uuidMapper(result, count) ==
    IF "node" \notin DOMAIN result
    THEN [exc |-> Some("KeyError"), val |-> None, count |-> count]
    ELSE LET done == uuidLoop(result.node, 1, <<>>, count)
         IN  IF done.exc # None THEN [exc |-> done.exc, val |-> None, count |-> done.count]
             ELSE [exc |-> None, val |-> Some([result EXCEPT !.node = done.nodes]),
                   count |-> done.count]

\* Variant of AttemptEnds: an attempt that gave None ends the generate call
\* instead of leaving the rest of the attempts to the for loop.
AttemptEndsGiveUp(outcome, cause) ==
    /\ attemptLog' = Append(attemptLog, cause)
    /\ IF Raised(outcome) /\ GenerateCatches(Val(outcome.exc))
       THEN /\ pc' = "for"
            /\ UNCHANGED <<returned, escaped>>
       ELSE /\ pc' = "idle"
            /\ returned' = outcome.val
            /\ escaped' = outcome.exc

\* How an attempt of the for loop ends, given what its try block gave (an
\* exception, None or a result) and the cause to record in the history.
AttemptEnds(outcome, cause) ==
    /\ attemptLog' = Append(attemptLog, cause)
    /\ IF Raised(outcome)
       THEN IF GenerateCatches(Val(outcome.exc))
            THEN /\ pc' = "for"
                 /\ UNCHANGED <<returned, escaped>>
            ELSE /\ pc' = "idle"
                 /\ escaped' = outcome.exc
                 /\ UNCHANGED returned
       ELSE IF outcome.val = None
            THEN /\ pc' = "for"
                 /\ UNCHANGED <<returned, escaped>>
            ELSE /\ pc' = "idle"
                 /\ returned' = outcome.val
                 /\ UNCHANGED escaped

\* generateUMLBlock(fileStructure, maxIterations, retries) up to the for loop.
generateUMLBlockCall(fs, mi, r) ==
    /\ agent = "uml"
    /\ pc = "idle"
    /\ generateCalls' = generateCalls + 1
    /\ retriesArg' = r
    /\ retries' = EffectiveRetries(r)
    /\ fileStructure' = Some(fs)
    /\ maxIterations' = mi
    /\ attempt' = 0
    /\ returned' = None
    /\ escaped' = None
    /\ calls' = 0
    /\ attemptCalls' = 0
    /\ chunks' = <<>>
    /\ answersLog' = <<>>
    /\ attemptLog' = <<>>
    /\ modelOutput' = None
    /\ attemptResult' = None
    /\ pc' = "for"
    /\ UNCHANGED <<agent, messages, umlStructure, scanResult, loopVars, uuidCount,
                   clock, answered>>

\* A caller that makes MaxGenerate calls on the instance.
generateUMLBlock(fs, mi, r) ==
    generateCalls < MaxGenerate /\ generateUMLBlockCall(fs, mi, r)

\* A caller that makes MaxSuccessive calls on the instance.
generateUMLBlockAgain(fs, mi, r) ==
    generateCalls < MaxSuccessive /\ generateUMLBlockCall(fs, mi, r)

\* The for loop of either generate call is exhausted: the call returns None.
ReturnAfterRetries ==
    /\ pc = "for"
    /\ ~MoreAttempts(attempt, retries)
    /\ pc' = "idle"
    /\ returned' = None
    /\ UNCHANGED <<agent, messages, inputVars, attempt, loopVars, escaped, uuidCount,
                   clock, answered, generateCalls, calls, attemptCalls, chunks,
                   answersLog, attemptLog, modelOutput, attemptResult>>

\* Variant of extractUMLContentBegin: the attempt starts from a transcript
\* that holds the system turn only.
extractUMLContentBeginFresh ==
    /\ agent = "uml"
    /\ pc = "for"
    /\ MoreAttempts(attempt, retries)
    /\ attempt' = attempt + 1
    /\ messages' = << messages[1], createMessage("user", UMLPrependMsg(Val(fileStructure))) >>
    /\ diagramIteration' = 0
    /\ totalCompletionTokens' = 0
    /\ totalPromptTokens' = 0
    /\ finalUMLBlock' = None
    /\ attemptCalls' = 0
    /\ chunks' = <<>>
    /\ modelOutput' = None
    /\ attemptResult' = None
    /\ pc' = "while"
    /\ UNCHANGED <<agent, inputVars, returned, escaped, uuidCount, clock, answered,
                   generateCalls, calls, answersLog, attemptLog>>

\* One more attempt: __extractUMLContent from its entry to the head of the loop.
extractUMLContentBegin ==
    /\ agent = "uml"
    /\ pc = "for"
    /\ MoreAttempts(attempt, retries)
    /\ attempt' = attempt + 1
    /\ messages' = Append(messages, createMessage("user", UMLPrependMsg(Val(fileStructure))))
    /\ diagramIteration' = 0
    /\ totalCompletionTokens' = 0
    /\ totalPromptTokens' = 0
    /\ finalUMLBlock' = None
    /\ attemptCalls' = 0
    /\ chunks' = <<>>
    /\ modelOutput' = None
    /\ attemptResult' = None
    /\ pc' = "while"
    /\ UNCHANGED <<agent, inputVars, returned, escaped, uuidCount, clock, answered,
                   generateCalls, calls, answersLog, attemptLog>>

\* The loop condition does not let the body run: it raises (maxIterations is
\* None), or it is false.
ContinuationSkipped ==
    /\ agent = "uml"
    /\ pc = "while"
    /\ IF maxIterations = None
       THEN AttemptEnds(Raise("TypeError"), "TypeError")
       ELSE /\ ~WhileCondition(diagramIteration, maxIterations)
            /\ pc' = "extract"
            /\ UNCHANGED <<returned, escaped, attemptLog>>
    /\ UNCHANGED <<agent, messages, inputVars, attempt, loopVars, uuidCount, clock,
                   answered, generateCalls, calls, attemptCalls, chunks, answersLog,
                   modelOutput, attemptResult>>

\* One pass of the continuation loop, with its completion call.
ContinuationIteration ==
    /\ agent = "uml"
    /\ pc = "while"
    /\ maxIterations # None
    /\ WhileCondition(diagramIteration, maxIterations)
    /\ \E o \in ServiceOutcomes(UMLResponses, StopReasons) :
        LET iteration == NextIteration(diagramIteration) IN
        /\ diagramIteration' = iteration
        /\ calls' = calls + 1
        /\ attemptCalls' = attemptCalls + 1
        /\ answersLog' = Append(answersLog, o)
        /\ IF o.err
           THEN \* except Exception: return None
                /\ AttemptEnds(ReturnNone, "APIError")
                /\ UNCHANGED <<messages, finalUMLBlock, totalPromptTokens,
                               totalCompletionTokens, answered, chunks>>
           ELSE /\ answered' = answered + 1
                /\ chunks' = Append(chunks, o.response)
                /\ finalUMLBlock' = Accumulate(iteration, finalUMLBlock, o.response)
                /\ totalCompletionTokens' =
                       totalCompletionTokens + CompletionTokens(o.response)
                /\ totalPromptTokens' = totalPromptTokens + PromptTokens(messages)
                /\ IF LoopBreaks(iteration, maxIterations, o.stopReason)
                   THEN /\ messages' = Append(messages,
                                           createMessage("assistant", o.response))
                        /\ pc' = "extract"
                   ELSE /\ messages' = messages \o
                               << createMessage("assistant", o.response),
                                  createMessage("user", ContinueMsg(o.response)) >>
                        /\ pc' = "while"
                /\ UNCHANGED <<returned, escaped, attemptLog>>
    /\ UNCHANGED <<agent, inputVars, attempt, uuidCount, clock, generateCalls, modelOutput, attemptResult>>

\* After the loop: extraction, then, in generateUMLBlock, identifier
\* remapping and the return.
ExtractAndRemap ==
    /\ agent = "uml"
    /\ pc = "extract"
    /\ LET fs == Val(fileStructure)
           body == ExtractBody(finalUMLBlock, fs, totalPromptTokens, totalCompletionTokens)
           result == ExtractAfterLoop(finalUMLBlock, fs, totalPromptTokens,
                                      totalCompletionTokens)
           mapped == uuidMapper(Val(result.val), uuidCount)
       IN  /\ modelOutput' =
                  IF finalUMLBlock # None /\ FenceSearch(Val(finalUMLBlock)) # None
                  THEN JsonLoads(Val(FenceSearch(Val(finalUMLBlock)))) ELSE None
           /\ attemptResult' = result.val
           /\ IF Raised(result) \/ result.val = None
              THEN /\ AttemptEnds(result, Val(body.exc))
                   /\ UNCHANGED uuidCount
              ELSE /\ uuidCount' = mapped.count
                   /\ AttemptEnds([exc |-> mapped.exc, val |-> mapped.val],
                                  IF mapped.exc = None THEN "ok" ELSE Val(mapped.exc))
    /\ UNCHANGED <<agent, messages, inputVars, attempt, loopVars, clock, answered,
                   generateCalls, calls, attemptCalls, chunks, answersLog>>

\* --------------------------------------------- AgentRecommendations (rec)

Get(d, k) == IF k \in DOMAIN d THEN d[k] ELSE ""

RECURSIVE Join(_, _)
Join(parts, sep) ==
    IF Len(parts) = 0 THEN ""
    ELSE IF Len(parts) = 1 THEN parts[1]
    ELSE parts[1] \o sep \o Join(Tail(parts), sep)

\* str() of a dict whose values are strings, with its keys in insertion order
PyDictStr(keys, d) ==
    "{" \o Join([i \in 1..Len(keys) |-> PyRepr(keys[i]) \o ": " \o PyRepr(d[keys[i]])], ", ")
        \o "}"

\* Variant of PyListOrNone: an empty list is rendered as it is.
PyListOrNoneBrackets(items) == "[" \o Join(items, ", ") \o "]"

\* str(items) if items else None, as str.format renders it
PyListOrNone(items) == IF Len(items) = 0 THEN "None" ELSE "[" \o Join(items, ", ") \o "]"

NodeKeys == <<"id", "name", "attribute", "desc", "operation", "type">>
ConnectionKeys == <<"connectionId", "source", "target", "role", "type", "multiplicity">>

Reduced(keys, d) == PyDictStr(keys, [k \in {keys[i] : i \in 1..Len(keys)} |-> Get(d, k)])

\* lines 251-275: the nodes seen before a KeyError stay in the list
umlStructureString(u) ==
    IF "node" \notin DOMAIN u \/ ~IsList(u.node) THEN PyListOrNone(<<>>)
    ELSE LET nodes == [i \in 1..Len(u.node) |-> Reduced(NodeKeys, u.node[i])]
         IN  IF "codingLanguage" \notin DOMAIN u THEN PyListOrNone(nodes)
             ELSE PyListOrNone(Append(nodes,
                      PyDictStr(<<"codingLanguage">>, [codingLanguage |-> u.codingLanguage])))

\* lines 277-299
connectionStructureString(u) ==
    IF "connection" \notin DOMAIN u \/ ~IsList(u.connection) THEN PyListOrNone(<<>>)
    ELSE PyListOrNone([i \in 1..Len(u.connection) |->
                          Reduced(ConnectionKeys, u.connection[i])])

\* lines 301-328
scanStructureString(scan) ==
    IF "result" \notin DOMAIN scan \/ ~IsList(scan.result) THEN PyListOrNone(<<>>)
    ELSE LET keys == IF "analysisType" \in DOMAIN scan /\ scan.analysisType = "vulnerability"
                     THEN <<"id", "name", "vulnerabilitySeverity", "vulnerabilitySummary">>
                     ELSE <<"id", "name">>
         IN  PyListOrNone([i \in 1..Len(scan.result) |-> Reduced(keys, scan.result[i])])

\* Variant of RecPrependMsg: the text carries the number of the attempt.
RecPrependMsgNumbered(u, scan) ==
    "Attempt " \o ToString(attempt + 1) \o ": Here's the UML content:\n"
        \o umlStructureString(u)
        \o "\nHere's the connection string:\n" \o connectionStructureString(u)
        \o "\nHere's the scan summary generated for every node:\n" \o scanStructureString(scan)

RecPrependMsg(u, scan) ==
    "Here's the UML content:\n" \o umlStructureString(u)
        \o "\nHere's the connection string:\n" \o connectionStructureString(u)
        \o "\nHere's the scan summary generated for every node:\n" \o scanStructureString(scan)

\* lines 368-373: the date stamping of a parsed list, entry i on
RECURSIVE stampLoop(_, _, _)
stampLoop(arr, i, currentTime) ==
    IF i > Len(arr) THEN Ok(arr)
    ELSE IF "recommendation" \notin DOMAIN arr[i] THEN Raise("KeyError")
    ELSE IF arr[i].recommendation
         THEN stampLoop([arr EXCEPT ![i] = ("recommendationDate" :> currentTime) @@ arr[i]],
                        i + 1, currentTime)
         ELSE stampLoop(arr, i + 1, currentTime)

\* __getRecommendations from the completion call on (lines 356-392), given
\* what the call gave and the clock reading a stamping would use.
getRecommendations(o, msgs, currentTime) ==
    IF o.err
    THEN ReturnNone @@ [cause |-> "APIError", clockRead |-> FALSE, parsed |-> None]
    ELSE LET loaded == JsonLoads(StripFences(o.response)) IN
         IF loaded = None
         THEN ReturnNone @@ [cause |-> "JSONDecodeError", clockRead |-> FALSE,
                             parsed |-> None]
         ELSE LET cleanedResponse == Val(loaded)
                  isList == cleanedResponse.kind = "list"
                  stamped == IF isList THEN stampLoop(cleanedResponse.arr, 1, currentTime)
                             ELSE Ok(<<>>)
              IN  IF Raised(stamped)
                  THEN \* except Exception (line 390)
                       ReturnNone @@ [cause |-> Val(stamped.exc), clockRead |-> isList,
                                      parsed |-> loaded]
                  ELSE Ok([result |-> IF isList THEN JArray(Val(stamped.val))
                                      ELSE cleanedResponse,
                           promptTokens |-> PromptTokens(msgs),
                           completionTokens |-> CompletionTokens(o.response)])
                       @@ [cause |-> "ok", clockRead |-> isList, parsed |-> loaded]

\* Variant of RequiredKeys: recommendationSummary is left out.
RequiredKeysNoSummary == {"name", "recommendation", "recommendationDate"}

\* requiredKeys (lines 450-455)
RequiredKeys == {"name", "recommendation", "recommendationSummary", "recommendationDate"}

\* The set comprehension of lines 459-464 over a value of the given type:
\* iterating a list gives its entries, a dict its keys, a str its
\* characters; an int or None is not iterable.
MissingKeys(v) ==
    IF v.kind = "list"
    THEN Ok({key \in RequiredKeys : \E i \in 1..Len(v.arr) : key \notin DOMAIN v.arr[i]})
    ELSE IF v.kind = "dict"
    THEN Ok({key \in RequiredKeys : \E entry \in DOMAIN v.obj : ~IsSubstr(key, entry)})
    ELSE IF v.kind = "str"
    THEN Ok({key \in RequiredKeys :
                \E i \in 1..Len(v.str) : ~IsSubstr(key, SubSeq(v.str, i, i))})
    ELSE Raise("TypeError")

\* Variant of reconcileLoop: an id the entry already has is kept.
RECURSIVE reconcileLoopKeep(_, _, _)
reconcileLoopKeep(arr, i, scan) ==
    IF i > Len(arr) THEN Ok(arr)
    ELSE IF "result" \notin DOMAIN scan THEN Raise("KeyError")
    ELSE IF ~IsList(scan.result) THEN Raise("TypeError")
    ELSE IF i > Len(scan.result) THEN Raise("IndexError")
    ELSE IF "id" \notin DOMAIN scan.result[i] THEN Raise("KeyError")
    ELSE reconcileLoopKeep([arr EXCEPT ![i] = arr[i] @@ ("id" :> scan.result[i].id)],
                           i + 1, scan)

\* node['id'] = self.__scanResult['result'][i]['id'], entry i on (lines 467-469)
RECURSIVE reconcileLoop(_, _, _)
reconcileLoop(arr, i, scan) ==
    IF i > Len(arr) THEN Ok(arr)
    ELSE IF "result" \notin DOMAIN scan THEN Raise("KeyError")
    ELSE IF ~IsList(scan.result) THEN Raise("TypeError")
    ELSE IF i > Len(scan.result) THEN Raise("IndexError")
    ELSE IF "id" \notin DOMAIN scan.result[i] THEN Raise("KeyError")
    ELSE reconcileLoop([arr EXCEPT ![i] = ("id" :> scan.result[i].id) @@ arr[i]], i + 1, scan)

\* Variant of checkAndReconcile: an entry takes the id of the scan entry that
\* has its name, instead of the one at its position.
checkAndReconcileByName(summary, scan) ==
    LET v == summary.result
        missingKeys == MissingKeys(v)
        Named(name) == {j \in 1..Len(scan.result) : scan.result[j].name = name}
    IN  IF Raised(missingKeys) THEN missingKeys
        ELSE IF Val(missingKeys.val) # {} THEN ReturnNone
        ELSE IF v.kind # "list" \/ Len(v.arr) = 0 THEN Ok(summary)
        ELSE IF "result" \notin DOMAIN scan THEN Raise("KeyError")
        ELSE IF ~IsList(scan.result) THEN Raise("TypeError")
        ELSE IF \E i \in 1..Len(v.arr) : Named(v.arr[i].name) = {} THEN Raise("KeyError")
        ELSE Ok([summary EXCEPT !.result =
                    JArray([i \in 1..Len(v.arr) |->
                               ("id" :> scan.result[CHOOSE j \in Named(v.arr[i].name) : TRUE].id)
                                   @@ v.arr[i]])])

\* generateRecommendations, lines 456-470, on a summary that is not None:
\* a result to return, None when keys are missing, or an exception.
\* (The keys of a dict and the characters of a str take no item assignment.)
checkAndReconcile(summary, scan) ==
    LET v == summary.result
        missingKeys == MissingKeys(v)
    IN  IF Raised(missingKeys) THEN missingKeys
        ELSE IF Val(missingKeys.val) # {} THEN ReturnNone
        ELSE IF v.kind = "list"
             THEN LET done == reconcileLoop(v.arr, 1, scan)
                  IN  IF Raised(done) THEN done
                      ELSE Ok([summary EXCEPT !.result = JArray(Val(done.val))])
        ELSE IF v.kind = "dict" /\ DOMAIN v.obj # {} THEN Raise("TypeError")
        ELSE IF v.kind = "str" /\ Len(v.str) > 0 THEN Raise("TypeError")
        ELSE Ok(summary)

\* generateRecommendations(umlStructure, scanResult, retries) up to the for loop.
generateRecommendationsCall(u, scan, r) ==
    /\ agent = "rec"
    /\ pc = "idle"
    /\ generateCalls' = generateCalls + 1
    /\ retriesArg' = r
    /\ retries' = EffectiveRetries(r)
    /\ umlStructure' = Some(u)
    /\ scanResult' = Some(scan)
    /\ attempt' = 0
    /\ returned' = None
    /\ escaped' = None
    /\ calls' = 0
    /\ attemptCalls' = 0
    /\ chunks' = <<>>
    /\ answersLog' = <<>>
    /\ attemptLog' = <<>>
    /\ modelOutput' = None
    /\ attemptResult' = None
    /\ pc' = "for"
    /\ UNCHANGED <<agent, messages, fileStructure, maxIterations, loopVars, uuidCount,
                   clock, answered>>

generateRecommendations(u, scan, r) ==
    generateCalls < MaxGenerate /\ generateRecommendationsCall(u, scan, r)

generateRecommendationsAgain(u, scan, r) ==
    generateCalls < MaxSuccessive /\ generateRecommendationsCall(u, scan, r)

\* One attempt of generateRecommendations: __getRecommendations with its one
\* completion call, then the check of the keys and the reconciliation.
RecommendationAttempt ==
    /\ agent = "rec"
    /\ pc = "for"
    /\ MoreAttempts(attempt, retries)
    /\ attempt' = attempt + 1
    /\ \E o \in ServiceOutcomes(RecResponses, {"stop"}) :
       \E sent \in {Append(messages,
                        createMessage("user",
                            RecPrependMsg(Val(umlStructure), Val(scanResult))))} :
       \E got \in {getRecommendations(o, sent, Now(clock + 1))} :
       \E checked \in {IF got.val = None THEN ReturnNone
                        ELSE checkAndReconcile(Val(got.val), Val(scanResult))} :
            /\ messages' = sent
            /\ calls' = calls + 1
            /\ attemptCalls' = 1
            /\ chunks' = IF o.err THEN <<>> ELSE <<o.response>>
            /\ answersLog' = Append(answersLog, o)
            /\ answered' = IF o.err THEN answered ELSE answered + 1
            /\ clock' = IF got.clockRead THEN clock + 1 ELSE clock
            /\ modelOutput' = got.parsed
            /\ attemptResult' = got.val
            /\ IF got.val = None
               THEN AttemptEnds(ReturnNone, got.cause)
               ELSE AttemptEnds(checked,
                        IF Raised(checked) THEN Val(checked.exc)
                        ELSE IF checked.val = None THEN "MissingKeys" ELSE "ok")
    /\ UNCHANGED <<agent, inputVars, loopVars, uuidCount, generateCalls>>


Next ==
    \/ \E fs \in {FileStructures[k] : k \in 1..Len(FileStructures)},
          mi \in MaxIterationsInputs, r \in RetriesInputs : generateUMLBlock(fs, mi, r)
    \/ extractUMLContentBegin
    \/ ContinuationSkipped
    \/ ContinuationIteration
    \/ ExtractAndRemap
    \/ \E u \in {UmlStructures[k] : k \in 1..Len(UmlStructures)},
          scan \in {ScanResults[k] : k \in 1..Len(ScanResults)},
          r \in RetriesInputs : generateRecommendations(u, scan, r)
    \/ RecommendationAttempt
    \/ ReturnAfterRetries

Spec == Init /\ [][Next]_vars

\* A caller that makes successive generate calls on the instance, with the
\* first inputs of the catalogues and one or two retries.
SuccessiveRetries == {Some(1), Some(2)}

NextSuccessive ==
    \/ \E mi \in MaxIterationsInputs, r \in SuccessiveRetries :
          generateUMLBlockAgain(FileStructures[1], mi, r)
    \/ extractUMLContentBegin
    \/ ContinuationSkipped
    \/ ContinuationIteration
    \/ ExtractAndRemap
    \/ \E r \in SuccessiveRetries :
          generateRecommendationsAgain(UmlStructures[1], ScanResults[1], r)
    \/ RecommendationAttempt
    \/ ReturnAfterRetries

SpecSuccessive == Init /\ [][NextSuccessive]_vars

\* ================================================================= claims

\* A generate call has been made and is over.
CallOver == pc = "idle" /\ generateCalls > 0

Failed(log) == \A i \in 1..Len(log) : log[i] # "ok"
Kinds(log) == {log[i] : i \in 1..Len(log)}

\* C1: for both agents, when every one of the `retries` attempts of a
\* generate call has failed (transport error, missing fence, decode error or
\* schema error, in any mix), the call returns None, and no exception ever
\* leaves a generate call.
C1_ExhaustionYieldsNone ==
    /\ escaped = None
    /\ (CallOver /\ Failed(attemptLog))
           => (returned = None /\ Len(attemptLog) = retries)

\* C1 happens: a file-parsing call given no `retries` is over after attempts
\* that failed by a transport error, a missing fence and a decode error.
C1_Witness ==
    /\ agent = "uml"
    /\ CallOver
    /\ retriesArg = None
    /\ Len(attemptLog) = DefaultRetries
    /\ {"APIError", "ValueError", "JSONDecodeError"} \subseteq Kinds(attemptLog)
    /\ returned = None

C2_State ==
    /\ attempt <= retries
    /\ (generateCalls > 0 /\ retriesArg = None) => retries = 5
    /\ (generateCalls > 0 /\ retriesArg # None) => retries = Val(retriesArg)
    /\ pc \in {"for", "idle"} => Len(attemptLog) = attempt
    /\ pc \in {"while", "extract"} => Len(attemptLog) = attempt - 1
    /\ \A i \in 1..(Len(attemptLog) - 1) : attemptLog[i] # "ok"
    /\ (attemptLog # <<>> /\ attemptLog[Len(attemptLog)] = "ok")
           => (pc = "idle" /\ returned # None /\ attemptResult # None)
    /\ returned # None
           => (pc = "idle" /\ attemptLog[Len(attemptLog)] = "ok"
               /\ Val(returned).promptTokens = Val(attemptResult).promptTokens
               /\ Val(returned).completionTokens = Val(attemptResult).completionTokens)

C2_Step ==
    (attemptLog # <<>> /\ attemptLog[Len(attemptLog)] = "ok")
        => (calls' = calls \/ generateCalls' = generateCalls + 1)

\* C2: for both agents a generate call makes at most `retries` attempts (5
\* when retries is not given), every finished attempt is counted once, only
\* the last attempt can be a success, a success is returned at once with the
\* result of that attempt, and no completion call follows it.
C2_BoundedRetries == []C2_State /\ [][C2_Step]_vars

\* C2 happens: a call given no `retries` succeeds at its fifth attempt.
C2_Witness ==
    /\ retriesArg = None
    /\ attempt = 5
    /\ Len(attemptLog) = 5
    /\ attemptLog[5] = "ok"
    /\ returned # None

\* C3: within one attempt of the file-parsing agent, for maxIterations >= 0,
\* at most maxIterations + 1 completion calls are made whatever the stop
\* reasons are, and after that many calls the loop has exited.
C3_LoopBound ==
    (agent = "uml" /\ maxIterations # None /\ Val(maxIterations) >= 0)
        => /\ attemptCalls <= Val(maxIterations) + 1
           /\ attemptCalls = Val(maxIterations) + 1 => pc # "while"

\* C3 happens: the loop has exited after maxIterations + 1 = 2 calls, none of
\* which reported "stop".
C3_Witness ==
    /\ agent = "uml"
    /\ pc = "extract"
    /\ maxIterations = Some(1)
    /\ attemptCalls = 2
    /\ \A i \in 1..Len(answersLog) : ~answersLog[i].err /\ answersLog[i].stopReason # "stop"

\* C4: whenever the continuation loop has made a completion call, and so when
\* it exits without a transport error, the accumulated text is the
\* concatenation, in call order, of the response texts of this attempt.
C4_Concatenation ==
    (agent = "uml" /\ pc \in {"while", "extract"} /\ chunks # <<>>)
        => finalUMLBlock = Some(Join(chunks, ""))

\* C4 happens: the loop exits with two different responses accumulated.
C4_Witness ==
    /\ agent = "uml"
    /\ pc = "extract"
    /\ Len(chunks) = 2
    /\ chunks[1] # chunks[2]

ReturnedNodes == Val(returned).node
ModelNodes == Val(modelOutput).obj.node

\* C5: every node of a graph the file-parsing agent returns has `filepath`
\* equal to the path of the input fileStructure.
C5_Filepath ==
    (agent = "uml" /\ returned # None /\ "path" \in DOMAIN Val(fileStructure))
        => \A i \in 1..Len(ReturnedNodes) :
               /\ "filepath" \in DOMAIN ReturnedNodes[i]
               /\ ReturnedNodes[i].filepath = Val(fileStructure).path

\* C5 happens: a graph is returned one of whose nodes the service gave
\* another filepath.
C5_Witness ==
    /\ agent = "uml"
    /\ returned # None
    /\ "path" \in DOMAIN Val(fileStructure)
    /\ \E i \in 1..Len(ModelNodes) :
           /\ "filepath" \in DOMAIN ModelNodes[i]
           /\ ModelNodes[i].filepath # Val(fileStructure).path

\* C6: in a graph the file-parsing agent returns, every node's id differs
\* from every other node's id and from the id the service gave that node
\* (the identifier generator never repeats itself nor a service id).
C6_FreshIds ==
    (agent = "uml" /\ returned # None)
        => /\ Len(ReturnedNodes) = Len(ModelNodes)
           /\ \A i \in 1..Len(ReturnedNodes) :
                  /\ ReturnedNodes[i].id # ModelNodes[i].id
                  /\ \A j \in 1..Len(ReturnedNodes) :
                         i # j => ReturnedNodes[i].id # ReturnedNodes[j].id

\* C6 happens: a graph is returned two of whose nodes the service gave the
\* same id.
C6_Witness ==
    /\ agent = "uml"
    /\ returned # None
    /\ \E i, j \in 1..Len(ModelNodes) : i # j /\ ModelNodes[i].id = ModelNodes[j].id

\* The entries of the result a recommendation call returned (a result that
\* is no list has none), and the ids of a sequence of dicts.
ReturnedEntries ==
    IF Val(returned).result.kind = "list" THEN Val(returned).result.arr ELSE <<>>
ScanEntries ==
    IF "result" \in DOMAIN Val(scanResult) /\ IsList(Val(scanResult).result)
    THEN Val(scanResult).result ELSE <<>>
Ids(entries) == [i \in 1..Len(entries) |-> entries[i].id]

\* C7 as stated: the ids of the entries of a returned list are the ids of
\* the input scan entries, same length and equal at every position.
C7_SameIds ==
    (agent = "rec" /\ returned # None /\ Val(returned).result.kind = "list")
        => /\ \A i \in 1..Len(ReturnedEntries) : "id" \in DOMAIN ReturnedEntries[i]
           /\ Ids(ReturnedEntries) = Ids(ScanEntries)

\* C7, amended: the ids of the returned entries are the ids of the first
\* entries of the input scan list, position by position; the result is never
\* longer than the scan list, but it can be shorter.
C7_PrefixIds ==
    (agent = "rec" /\ returned # None)
        => /\ Len(ReturnedEntries) <= Len(ScanEntries)
           /\ \A i \in 1..Len(ReturnedEntries) :
                  /\ "id" \in DOMAIN ReturnedEntries[i]
                  /\ ReturnedEntries[i].id = ScanEntries[i].id

\* C7 happens: two entries are returned, the first of which the service gave
\* an id of its own.
C7_Witness ==
    /\ agent = "rec"
    /\ returned # None
    /\ Len(ReturnedEntries) = 2
    /\ "id" \in DOMAIN Val(modelOutput).arr[1]
    /\ Val(modelOutput).arr[1].id # ScanEntries[1].id

\* C8: in every returned result an entry whose recommendation is false has no
\* recommendationDate and an entry whose recommendation is true has one.
C8_DateIffRecommended ==
    (agent = "rec" /\ returned # None)
        => \A i \in 1..Len(ReturnedEntries) :
               ReturnedEntries[i].recommendation
                   <=> "recommendationDate" \in DOMAIN ReturnedEntries[i]

\* C9: with the scan entries n1, n2 and the service answering with a true and
\* a false entry that carry no date and no id, the call returns two entries
\* with the ids n1 and n2, of which only the first has a recommendationDate.
C9_Scenario ==
    (/\ agent = "rec"
     /\ CallOver
     /\ retries > 0
     /\ scanResult = Some(ScanResults[1])
     /\ \A i \in 1..Len(answersLog) : answersLog[i] = Answer(JsonExample, "stop"))
        => /\ returned # None
           /\ Len(ReturnedEntries) = 2
           /\ Ids(ReturnedEntries) = <<"n1", "n2">>
           /\ "recommendationDate" \in DOMAIN ReturnedEntries[1]
           /\ "recommendationDate" \notin DOMAIN ReturnedEntries[2]

FourKeys == {"name", "recommendation", "recommendationSummary", "recommendationDate"}
Complete(entries) == \A i \in 1..Len(entries) : FourKeys \subseteq DOMAIN entries[i]

\* C10: an attempt whose parsed response, after date stamping, has an entry
\* without one of the four keys is a failed attempt that returns nothing, and
\* every entry of a returned result has the four keys.
C10_NoPartialResult ==
    agent = "rec"
        => /\ returned # None => Complete(ReturnedEntries)
           /\ (/\ pc \in {"for", "idle"}
               /\ attemptResult # None
               /\ Val(attemptResult).result.kind = "list"
               /\ ~Complete(Val(attemptResult).result.arr))
                  => (attemptLog[Len(attemptLog)] # "ok" /\ returned = None /\ escaped = None)

\* C10 happens: an attempt has failed because an entry, stamped or not, lacks
\* one of the four keys.
C10_Witness ==
    /\ agent = "rec"
    /\ attemptResult # None
    /\ Val(attemptResult).result.kind = "list"
    /\ \E i \in 1..Len(Val(attemptResult).result.arr) :
           LET entry == Val(attemptResult).result.arr[i]
           IN  entry.recommendation /\ "recommendationSummary" \notin DOMAIN entry
    /\ attemptLog[Len(attemptLog)] = "MissingKeys"
    /\ pc = "for"

\* The attempt that has just finished got an answer from the service (no
\* transport error).
LastAnswered ==
    /\ pc \in {"for", "idle"}
    /\ attemptLog # <<>>
    /\ answersLog # <<>>
    /\ ~answersLog[Len(answersLog)].err

\* C11: an attempt of the recommendation agent whose response is malformed
\* JSON, or parses to anything other than a list, is a failed attempt and its
\* value is never returned as the result.
C11_NonSequenceFails ==
    (/\ agent = "rec"
     /\ LastAnswered
     /\ (modelOutput = None \/ Val(modelOutput).kind # "list"))
        => /\ attemptLog[Len(attemptLog)] # "ok"
           /\ returned = None

LastFailure == attemptLog[Len(attemptLog)]

C12_State ==
    (/\ agent = "uml"
     /\ pc \in {"for", "idle"}
     /\ attemptLog # <<>>
     /\ LastFailure \in {"APIError", "ValueError", "JSONDecodeError"})
        => /\ returned = None
           /\ escaped = None
           /\ attemptResult = None
           /\ LastFailure = "APIError" => modelOutput = None
           /\ pc = "idle" => attempt = retries

C12_Step ==
    /\ (agent = "uml" /\ Len(answersLog') = Len(answersLog) + 1
            /\ answersLog'[Len(answersLog')].err)
           => /\ pc' = "for"
              /\ attemptLog' = Append(attemptLog, "APIError")
              /\ modelOutput' = None
              /\ attemptResult' = None
              /\ UNCHANGED <<messages, finalUMLBlock, uuidCount, returned, escaped>>
    /\ (agent = "uml" /\ pc = "for" /\ attempt < retries)
           => (attempt' = attempt + 1 /\ pc' = "while")

\* C12: in the file-parsing agent a transport error in any iteration of the
\* continuation loop ends the attempt with no result and without extraction
\* of the text accumulated so far; a missing fence or an undecodable block
\* ends the attempt with no result too; and after such an attempt the for
\* loop starts another one while fewer than `retries` have been made.
C12_FailedAttemptRetried == []C12_State /\ [][C12_Step]_vars

\* C12 happens: the second completion call of an attempt raised a transport
\* error when the first response already held a complete fenced block, and
\* attempts are left.
C12_Witness ==
    /\ agent = "uml"
    /\ pc = "for"
    /\ attempt < retries
    /\ attemptLog # <<>>
    /\ LastFailure = "APIError"
    /\ attemptCalls = 2
    /\ finalUMLBlock # None
    /\ FenceSearch(Val(finalUMLBlock)) # None
    /\ modelOutput = None

\* What extraction finds in a text: the document parsed from its first
\* fenced block, None when there is no block or no document in it.
Parsed(text) ==
    IF FenceSearch(text) = None THEN None ELSE JsonLoads(Val(FenceSearch(text)))

\* The response texts the service has given in this attempt, with their
\* finish reasons, in call order.
AttemptAnswers == SubSeq(answersLog, Len(answersLog) - attemptCalls + 1, Len(answersLog))

SplitOpen == "'''json\n{\"node\": []"
SplitClose == "}\n'''"

\* C13: extraction runs once per attempt of the file-parsing agent, after the
\* continuation loop and on the whole accumulated text: nothing is parsed
\* while the loop runs, what is parsed afterwards is the block found in the
\* concatenation of the attempt's responses, and a block whose opening fence
\* came in one iteration (finish reason "length") and whose closing fence
\* came in the next (finish reason "stop") is parsed and returned.
C13_ExtractWholeText ==
    agent = "uml"
        => /\ pc = "while" => (modelOutput = None /\ attemptResult = None)
           /\ (pc \in {"for", "idle"} /\ attemptLog # <<>>
                   /\ LastFailure \notin {"APIError", "TypeError"})
                  => modelOutput = Parsed(Join(chunks, ""))
           /\ (/\ pc \in {"for", "idle"}
               /\ attemptLog # <<>>
               /\ attemptCalls = 2
               /\ AttemptAnswers = << Answer(SplitOpen, "length"), Answer(SplitClose, "stop") >>)
                  => /\ pc = "idle"
                     /\ returned # None
                     /\ Val(returned).node = <<>>

\* C13 happens: the two halves of the block came in two iterations, neither
\* of which holds a block on its own, and the call returned the graph.
C13_Witness ==
    /\ agent = "uml"
    /\ pc = "idle"
    /\ chunks = <<SplitOpen, SplitClose>>
    /\ answersLog[Len(answersLog) - 1].stopReason = "length"
    /\ answersLog[Len(answersLog)].stopReason = "stop"
    /\ Parsed(SplitOpen) = None
    /\ Parsed(SplitClose) = None
    /\ returned # None

C14_State ==
    (agent = "rec" /\ generateCalls > 0)
        => /\ calls = attempt
           /\ Len(answersLog) = calls
           /\ calls <= retries

C14_Step ==
    agent = "rec"
        => IF attempt' = attempt + 1
           THEN /\ Len(messages') = Len(messages) + 1
                /\ SubSeq(messages', 1, Len(messages)) = messages
                /\ messages'[Len(messages')].role = "user"
                /\ calls' = calls + 1
                /\ Len(answersLog') = Len(answersLog) + 1
                /\ pc' \in {"for", "idle"}
           ELSE /\ messages' = messages
                /\ calls' = calls \/ calls' = 0

\* C14: each attempt of the recommendation agent appends exactly one user
\* turn and makes exactly one completion call, whatever the response is, and
\* no other step appends a turn or makes a call; so a generate call makes as
\* many completion calls as attempts, at most `retries`.
C14_OneCallPerAttempt == []C14_State /\ [][C14_Step]_vars

\* C14 happens: a second attempt has been made after a response that was no
\* JSON, with two calls and two user turns in all.
C14_Witness ==
    /\ agent = "rec"
    /\ attempt = 2
    /\ calls = 2
    /\ Len(messages) = 3
    /\ ~answersLog[1].err
    /\ attemptLog[1] = "JSONDecodeError"

\* A portion of the inputs of the recommendation agent is missing or no list.
Absent(d, key) == key \notin DOMAIN d \/ ~IsList(d[key])
Portion(d, key, rendered) == IF Absent(d, key) THEN "None" ELSE rendered

\* C15: when umlStructure has no `node` or `connection` list, or scanResult
\* no `result` list, the attempt goes on: the portion is rendered as None in
\* the user turn, the completion call is made, nothing escapes, and a result
\* can still be returned (with a scan list absent, only one without entries).
C15_AbsentPortions ==
    (agent = "rec" /\ attempt > 0)
        => LET u == Val(umlStructure)
               scan == Val(scanResult)
           IN  /\ messages[Len(messages)].role = "user"
               /\ messages[Len(messages)].content =
                      "Here's the UML content:\n"
                          \o Portion(u, "node", umlStructureString(u))
                          \o "\nHere's the connection string:\n"
                          \o Portion(u, "connection", connectionStructureString(u))
                          \o "\nHere's the scan summary generated for every node:\n"
                          \o Portion(scan, "result", scanStructureString(scan))
               /\ calls = attempt
               /\ escaped = None
               /\ (Absent(scan, "result") /\ returned # None) => ReturnedEntries = <<>>

\* C15 happens: a result is returned by a call whose umlStructure has no
\* `node` and no `connection` and whose scanResult holds a dict under `result`.
C15_Witness ==
    /\ agent = "rec"
    /\ umlStructure = Some(<<>>)
    /\ "result" \in DOMAIN Val(scanResult)
    /\ ~IsList(Val(scanResult).result)
    /\ calls = 1
    /\ returned # None
    /\ Val(returned).result.kind = "list"

SystemTurn ==
    [role |-> "system",
     content |-> IF agent = "uml" THEN UMLSystemPrompt ELSE RecSystemPrompt]

C16_State == messages # <<>> /\ messages[1] = SystemTurn

C16_Step ==
    /\ Len(messages') >= Len(messages)
    /\ SubSeq(messages', 1, Len(messages)) = messages

\* C16: for both agents the first transcript entry is always the system turn
\* of the construction, and every step only appends turns: the transcript
\* before the step is a prefix of the transcript after it, across iterations,
\* attempts and successive generate calls.
C16_AppendOnly == []C16_State /\ [][C16_Step]_vars

\* C16 happens: the second generate call on a file-parsing instance has
\* appended its user turn after the turns of the first call, among them an
\* assistant turn and a continue turn.
C16_Witness ==
    /\ agent = "uml"
    /\ generateCalls = 2
    /\ pc = "while"
    /\ Len(messages) >= 5
    /\ messages[3].role = "assistant"
    /\ messages[4].role = "user"
    /\ messages[Len(messages)].role = "user"
    /\ messages[Len(messages)].content = messages[2].content

\* C17: for both agents every attempt starts from a clean transcript: when
\* the first completion call of an attempt is made, the transcript holds the
\* system turn and the user turn of this attempt, and no turn of an earlier
\* attempt.
C17_CleanTranscript ==
    /\ (agent = "uml" /\ pc = "while" /\ attemptCalls = 0) => Len(messages) = 2
    /\ (agent = "rec" /\ attempt > 0) => Len(messages) = 2

ContinueText ==
    "Continue from where you left off. Here are the last 20 characters of the last response: "

C18_Step ==
    (/\ agent = "uml"
     /\ Len(answersLog') = Len(answersLog) + 1
     /\ ~answersLog'[Len(answersLog')].err)
        => LET o == answersLog'[Len(answersLog')]
               n == Len(o.response)
               quoted == IF n <= 20 THEN o.response ELSE SubSeq(o.response, n - 19, n)
               assistantTurn == [role |-> "assistant", content |-> o.response]
               continueTurn == [role |-> "user", content |-> ContinueText \o quoted]
           IN  IF o.stopReason # "stop" /\ attemptCalls' <= Val(maxIterations)
               THEN /\ messages' = messages \o <<assistantTurn, continueTurn>>
                    /\ pc' = "while"
               ELSE /\ messages' = Append(messages, assistantTurn)
                    /\ pc' = "extract"

\* C18: in the continuation loop of the file-parsing agent every answered
\* completion call appends the assistant turn with the response; a user
\* continue turn quoting the last 20 characters of the response (all of it
\* when shorter) follows exactly when the finish reason is not "stop" and the
\* calls made in the attempt are at most maxIterations, and the loop goes on;
\* otherwise the loop exits with no continue turn.
C18_ContinueTurn == [][C18_Step]_vars

\* C18 happens: after a first response of more than 20 characters that did
\* not end with "stop", the transcript ends with the assistant turn and a
\* continue turn quoting its last 20 characters, and the loop goes on.
C18_Witness ==
    /\ agent = "uml"
    /\ pc = "while"
    /\ attemptCalls = 1
    /\ Len(chunks[1]) > 20
    /\ messages[Len(messages) - 1] = [role |-> "assistant", content |-> chunks[1]]
    /\ messages[Len(messages)].role = "user"
    /\ messages[Len(messages)].content =
           ContinueText \o SubSeq(chunks[1], Len(chunks[1]) - 19, Len(chunks[1]))

NodeIds(graph) == {graph.node[i].id : i \in 1..Len(graph.node)}
Resolved(graph) ==
    "connection" \in DOMAIN graph
        => \A i \in 1..Len(graph.connection) :
               /\ graph.connection[i].source \in NodeIds(graph)
               /\ graph.connection[i].target \in NodeIds(graph)

\* C19: when every connection of the service's graph has the ids of nodes of
\* that graph as source and target, every connection of the returned graph
\* has the ids of nodes of the returned graph as source and target.
C19_ConnectionsResolve ==
    (agent = "uml" /\ returned # None /\ Resolved(Val(modelOutput).obj))
        => Resolved(Val(returned))

\* C20: the file-parsing agent returns the connection list as the service
\* wrote it, if it wrote one, and identifier remapping changes nothing but the
\* `id` of the nodes of the extracted graph.
C20_ConnectionsUnchanged ==
    (agent = "uml" /\ returned # None)
        => LET out == Val(returned)
               parsed == Val(modelOutput).obj
               extracted == Val(attemptResult)
           IN  /\ ("connection" \in DOMAIN out) <=> ("connection" \in DOMAIN parsed)
               /\ "connection" \in DOMAIN out => out.connection = parsed.connection
               /\ DOMAIN out = DOMAIN extracted
               /\ \A k \in DOMAIN out \ {"node"} : out[k] = extracted[k]
               /\ Len(out.node) = Len(extracted.node)
               /\ \A i \in 1..Len(out.node) :
                      /\ DOMAIN out.node[i] = DOMAIN extracted.node[i]
                      /\ \A k \in DOMAIN out.node[i] \ {"id"} :
                             out.node[i][k] = extracted.node[i][k]
                      /\ out.node[i].id # extracted.node[i].id

\* C20 happens: a graph is returned with a connection whose source and target
\* are ids the service gave to nodes, all of which were remapped.
C20_Witness ==
    /\ agent = "uml"
    /\ returned # None
    /\ "connection" \in DOMAIN Val(returned)
    /\ Len(Val(returned).connection) > 0
    /\ Val(returned).connection[1].source \in NodeIds(Val(modelOutput).obj)
    /\ Val(returned).connection[1].target \in NodeIds(Val(modelOutput).obj)

RECURSIVE SumSeq(_)
SumSeq(numbers) == IF numbers = <<>> THEN 0 ELSE numbers[1] + SumSeq(Tail(numbers))

\* The transcript call j of the attempt sent, once the loop has exited after
\* an answered call: every call but the last was followed by two turns, the
\* last one by one.
SentBy(j) == SubSeq(messages, 1, Len(messages) - 2 * (attemptCalls - j) - 1)

\* C22: the promptTokens and completionTokens of a graph the file-parsing
\* agent returns are the sums of the counts the service reported for the
\* completion calls of the attempt that produced it, whatever the parsed
\* object had under those keys.
C22_TokenTotals ==
    (agent = "uml" /\ returned # None)
        => /\ Len(chunks) = attemptCalls
           /\ Val(returned).promptTokens =
                  SumSeq([j \in 1..attemptCalls |-> PromptTokens(SentBy(j))])
           /\ Val(returned).completionTokens =
                  SumSeq([j \in 1..attemptCalls |-> CompletionTokens(chunks[j])])

\* C22 happens: a graph is returned from an attempt of two completion calls
\* whose parsed object had a promptTokens value of its own.
C22_Witness ==
    /\ agent = "uml"
    /\ returned # None
    /\ attemptCalls = 2
    /\ "promptTokens" \in DOMAIN Val(modelOutput).obj
    /\ Val(modelOutput).obj.promptTokens # Val(returned).promptTokens
    /\ Val(returned).completionTokens = Len(chunks[1]) + Len(chunks[2])

\* C23: the transcript is request-scoped: the transcript the first attempt of
\* a later generate call sends holds the system turn and the user turn of
\* that attempt, and no turn appended during an earlier generate call.
C23_RequestScoped ==
    /\ (agent = "uml" /\ generateCalls > 1 /\ attempt = 1 /\ pc = "while"
            /\ attemptCalls = 0)
           => Len(messages) = 2
    /\ (agent = "rec" /\ generateCalls > 1 /\ attempt = 1) => Len(messages) = 2

LastTurn == messages[Len(messages)]
IsContinueTurn(turn) ==
    /\ turn.role = "user"
    /\ Len(turn.content) >= Len(ContinueText)
    /\ SubSeq(turn.content, 1, Len(ContinueText)) = ContinueText

\* C24 as stated: whenever the continuation loop of the file-parsing agent
\* has exited without a transport error the last transcript turn is an
\* assistant turn, and a continue turn is always followed by another
\* completion call.
C24_AssistantLast ==
    agent = "uml"
        => /\ pc = "extract" => LastTurn.role = "assistant"
           /\ (pc = "while" /\ attemptCalls > 0)
                  => WhileCondition(diagramIteration, maxIterations)

C24_State ==
    agent = "uml"
        => /\ (pc = "extract" /\ attemptCalls > 0)
                  => /\ LastTurn.role = "assistant"
                     /\ \A i \in (Len(messages) - 2 * attemptCalls + 2)..Len(messages) :
                            IsContinueTurn(messages[i])
                                => (i < Len(messages) /\ messages[i + 1].role = "assistant")
           /\ (pc = "extract" /\ attemptCalls = 0)
                  => (Val(maxIterations) < 0 /\ LastTurn.role = "user")
           /\ (pc = "while" /\ attemptCalls > 0)
                  => /\ IsContinueTurn(LastTurn)
                     /\ WhileCondition(diagramIteration, maxIterations)

C24_Step ==
    (agent = "uml" /\ pc = "while" /\ attemptCalls > 0)
        => (calls' = calls + 1 /\ attempt' = attempt)

\* C24, amended: whenever the loop has exited after at least one completion
\* call and without a transport error, the last transcript turn is an
\* assistant turn and every continue turn of the attempt is followed by an
\* assistant turn; while the loop runs, a continue turn is always followed by
\* another completion call of the same attempt.  A loop that exits without
\* any call (negative maxIterations) leaves the user turn of the attempt last.
C24_NoUnansweredContinue == []C24_State /\ [][C24_Step]_vars

\* C24 happens: the iteration bound ended the loop after two calls, neither
\* of which reported "stop"; the continue turn after the first one was
\* answered and none followed the second.
C24_Witness ==
    /\ agent = "uml"
    /\ pc = "extract"
    /\ maxIterations = Some(1)
    /\ attemptCalls = 2
    /\ answersLog[Len(answersLog)].stopReason = "length"
    /\ answersLog[Len(answersLog) - 1].stopReason = "length"
    /\ IsContinueTurn(messages[Len(messages) - 1])
    /\ LastTurn.role = "assistant"

\* C25: the recommendation agent never appends an assistant turn; on a fresh
\* instance the transcript sent in attempt k of a generate call is the
\* system turn followed by exactly k user turns with identical content.
C25_UserTurnsOnly ==
    agent = "rec"
        => /\ \A i \in 1..Len(messages) : messages[i].role # "assistant"
           /\ generateCalls = 1
                  => /\ Len(messages) = attempt + 1
                     /\ messages[1] = SystemTurn
                     /\ \A i \in 2..Len(messages) :
                            /\ messages[i].role = "user"
                            /\ messages[i] = messages[2]
                     /\ attempt > 0 => attemptCalls = 1

\* C25 happens: the second attempt of a call has sent its transcript of
\* three turns, after a first attempt the service had answered.
C25_Witness ==
    /\ agent = "rec"
    /\ generateCalls = 1
    /\ attempt = 2
    /\ Len(answersLog) = 2
    /\ ~answersLog[1].err
    /\ Len(messages) = 3
    /\ messages[3] = messages[2]

\* C26: an attempt of the file-parsing agent whose fenced JSON parses to an
\* object without a node key never produces a result: the extraction gives
\* the object, the identifier remapping raises KeyError, the for loop catches
\* it and the attempt counts as failed.  An object with a node sequence and
\* no connection key is returned as the result of the call.
C26_State ==
    (/\ agent = "uml"
     /\ pc \in {"for", "idle"}
     /\ attemptLog # <<>>
     /\ modelOutput # None
     /\ Val(modelOutput).kind = "dict")
        => LET obj == Val(modelOutput).obj IN
           /\ "node" \notin DOMAIN obj
                  => /\ attemptResult # None
                     /\ "node" \notin DOMAIN Val(attemptResult)
                     /\ LastFailure = "KeyError"
                     /\ returned = None
                     /\ escaped = None
           /\ ("node" \in DOMAIN obj /\ "connection" \notin DOMAIN obj
                  /\ \A i \in 1..Len(obj.node) : "id" \in DOMAIN obj.node[i])
                  => /\ LastFailure = "ok"
                     /\ pc = "idle"
                     /\ returned # None
                     /\ escaped = None
                     /\ DOMAIN Val(returned)
                            = DOMAIN obj \cup {"promptTokens", "completionTokens"}

C26_Step ==
    (/\ agent = "uml"
     /\ Len(attemptLog') = Len(attemptLog) + 1
     /\ attemptLog'[Len(attemptLog')] = "KeyError")
        => /\ returned' = returned
           /\ escaped' = escaped
           /\ pc' = "for"

C26_NodeKeyRequired == []C26_State /\ [][C26_Step]_vars

\* C26 happens: an attempt extracted an object without a node key, the
\* remapping failed on it and the for loop goes on with no result.
C26_Witness ==
    /\ agent = "uml"
    /\ pc = "for"
    /\ attemptLog # <<>>
    /\ LastFailure = "KeyError"
    /\ modelOutput = JsonLoads(JsonNoNode)
    /\ attemptResult # None
    /\ "node" \notin DOMAIN Val(attemptResult)
    /\ returned = None

====
